---- MODULE Spec2Model ----
(***************************************************************************)
(* The frame-driven animation scheduler of displayio_animation.py:         *)
(* Animation.add_entry, Animation.execute_frame, Entry, and the built-in   *)
(* behaviours translate, translate_relative, wiggle and color_morph_label  *)
(* with the colour helpers they call.                                      *)
(*                                                                         *)
(* Frames are floats in the source.  Here a frame is a whole number of     *)
(* ticks, SubFrames ticks to the frame, so that the sub-frames the example *)
(* main loop feeds to execute_frame (frame + subframe / frame_multiplier)  *)
(* are values of the model.  A position is the exact fraction <<n, d>>.    *)
(* An optional value (Python's None or a value) is <<>> or <<v>>.          *)
(***************************************************************************)
EXTENDS Integers, Sequences, FiniteSets, TLC

(* ------------------------------ bounds --------------------------------- *)
\* Entries the registry may hold (the list itself is unbounded).
MaxEntries == 2
\* Last whole frame a caller supplies or registers.
MaxFrame == 1
\* Ticks per frame: the example's frame_multiplier, scaled down.
SubFrames == 2
\* Coordinates are kept within -MaxCoord .. MaxCoord.
MaxCoord == 4
\* Largest xsteps / ysteps a wiggle entry is registered with.
MaxSteps == 5
\* Last whole frame of the window a lone wiggle entry is run over.
WiggleFrames == 4
\* Last whole frame of the window a lone colour morph is run over.
FadeFrames == 2

(* --------------------------- optional values --------------------------- *)
None == <<>>

Some(v) == <<v>>

IsNone(o) == o = <<>>

Val(o) == o[1]

(* ------------------------------ arithmetic ----------------------------- *)
Abs(n) == IF n < 0 THEN -n ELSE n

\* Python's a // b for b > 0: the floor of the quotient.
FloorDiv(a, b) == a \div b

\* Python's int() of the fraction n / d, d > 0: truncation toward zero.
TruncDiv(n, d) == IF n >= 0 THEN n \div d ELSE -((-n) \div d)

\* Python's round() of the fraction n / d, d > 0: to the nearest integer, a
\* tie going to the even one.
Round(n, d) ==
    LET q == n \div d
        r == n % d
    IN  IF 2 * r < d THEN q
        ELSE IF 2 * r > d THEN q + 1
        ELSE IF q % 2 = 0 THEN q ELSE q + 1

\* range(start, stop, step), step # 0, as a sequence.
PyRange(start, stop, step) ==
    LET len == IF step > 0
               THEN (IF stop > start THEN (stop - start + step - 1) \div step ELSE 0)
               ELSE (IF stop < start THEN (start - stop - step - 1) \div (-step) ELSE 0)
    IN  [k \in 1..len |-> start + (k - 1) * step]

RECURSIVE BitOr(_, _)
\* a | b for non-negative integers.
BitOr(a, b) ==
    IF a = 0 THEN b
    ELSE IF b = 0 THEN a
    ELSE (IF a % 2 = 1 \/ b % 2 = 1 THEN 1 ELSE 0) + 2 * BitOr(a \div 2, b \div 2)

\* a << k and a >> k for non-negative a.
Shl(a, k) == a * (2 ^ k)

Shr(a, k) == a \div (2 ^ k)

\* a & 0xFF for non-negative a.
AndFF(a) == a % 256

(* ------------------------------- colours ------------------------------- *)
\* A colour value as Python holds it: a packed integer, a tuple or a list of
\* channels, or something that is neither (a string).
IntColor(n) == [rep |-> "int", val |-> n, ch |-> <<>>]

TupleColor(r, g, b) == [rep |-> "tuple", val |-> 0, ch |-> <<r, g, b>>]

ListColor(r, g, b) == [rep |-> "list", val |-> 0, ch |-> <<r, g, b>>]

StrColor == [rep |-> "str", val |-> 0, ch |-> <<>>]

\* The result of a call that raised ValueError.
ValueError == [rep |-> "ValueError", val |-> 0, ch |-> <<>>]

\* _color_to_tuple(value): a tuple as it is, an integer as the list [r, g, b].
ColorToTuple(value) ==
    IF value.rep = "tuple" THEN value
    ELSE IF value.rep = "int"
    THEN IF Shr(value.val, 24) # 0 THEN ValueError
         ELSE ListColor(Shr(value.val, 16), AndFF(Shr(value.val, 8)), AndFF(value.val))
    ELSE ValueError

\* _tuple_to_color(rgb_tuple): the packed integer.
TupleToColor(ch) == BitOr(BitOr(Shl(ch[1], 16), Shl(ch[2], 8)), ch[3])

\* _color_fade(start_color, end_color, fraction), fraction = <<n, d>>, d > 0.
ColorFade(start_color, end_color, fraction) ==
    LET s == ColorToTuple(start_color)
        e == ColorToTuple(end_color)
        n == fraction[1]
        d == fraction[2]
    IN  IF s.rep = "ValueError" \/ e.rep = "ValueError" THEN ValueError
        ELSE IF n >= d THEN e
        ELSE IF n <= 0 THEN s
        ELSE IntColor(TupleToColor(
                 [i \in 1..3 |-> s.ch[i] - TruncDiv((s.ch[i] - e.ch[i]) * n, d)]))

(* ------------------------------ behaviours ----------------------------- *)
\* linear_interpolation of adafruit_displayio_layout.widgets.easing, the
\* default easing function: the position unchanged.
LinearInterpolation(position) == position

\* What a behaviour leaves behind: the exception it raised ("none" when it
\* returned), the target group's fields, the label's colour, and the
\* coordinates it assigned (None for a coordinate it did not assign).
Outcome(raised, target, color, wx, wy) ==
    [raised |-> raised, target |-> target, color |-> color, wx |-> wx, wy |-> wy]

\* translate easing from the group's current position instead of (x1, y1).
TranslateFromCurrent(kw, target, color, position) ==
    LET x == Round((kw.x2 - Val(target).x) * position[1], position[2]) + Val(target).x
        y == Round((kw.y2 - Val(target).y) * position[1], position[2]) + Val(target).y
    IN  Outcome("none", Some([x |-> x, y |-> y]), color, Some(x), Some(y))

\* translate truncating the scaled distance instead of rounding it.
TranslateTruncating(kw, target, color, position) ==
    LET x == TruncDiv((kw.x2 - kw.x1) * position[1], position[2]) + kw.x1
        y == TruncDiv((kw.y2 - kw.y1) * position[1], position[2]) + kw.y1
    IN  Outcome("none", Some([x |-> x, y |-> y]), color, Some(x), Some(y))

\* translate(x1, y1, x2, y2, group, position): target is the group's fields,
\* or None when the entry's group is None.
Translate(kw, target, color, position) ==
    LET px == LinearInterpolation(position)
        py == LinearInterpolation(position)
        x  == Round((kw.x2 - kw.x1) * px[1], px[2]) + kw.x1
        y  == Round((kw.y2 - kw.y1) * py[1], py[2]) + kw.y1
    IN  IF IsNone(target) THEN Outcome("AttributeError", target, color, None, None)
        ELSE Outcome("none", Some([x |-> x, y |-> y]), color, Some(x), Some(y))

\* translate_relative(delta_x, delta_y, group, x0, y0, position).
TranslateRelative(kw, target, color, x0, y0, position) ==
    LET px == LinearInterpolation(position)
        py == LinearInterpolation(position)
    IN  IF IsNone(x0) THEN Outcome("TypeError", target, color, None, None)
        ELSE IF IsNone(target) THEN Outcome("AttributeError", target, color, None, None)
        ELSE LET x == Round(kw.delta_x * px[1], px[2]) + Val(x0)
             IN  IF IsNone(y0)
                 THEN Outcome("TypeError", Some([x |-> x, y |-> Val(target).y]),
                              color, Some(x), None)
                 ELSE LET y == Round(kw.delta_y * py[1], py[2]) + Val(y0)
                      IN  Outcome("none", Some([x |-> x, y |-> y]), color,
                                  Some(x), Some(y))

\* The offset table wiggle builds for an axis with the given steps.
WigglePositions(steps) ==
    PyRange(0, FloorDiv(steps, 2), 1)
    \o PyRange(FloorDiv(steps, 2) - 2, FloorDiv(-1 * steps, 2), -1)
    \o PyRange(FloorDiv(-1 * steps, 2) + 2, 0, 1)

\* The table indexed by the frame itself instead of frame - frame_start.
WiggleIndexAbsolute(positions, frame_start, frame) ==
    positions[(frame % (SubFrames * Len(positions))) \div SubFrames + 1]

\* positions[int((frame - frame_start) % len(positions))], frames in ticks;
\* the table is not empty.
WiggleIndex(positions, frame_start, frame) ==
    positions[((frame - frame_start) % (SubFrames * Len(positions))) \div SubFrames + 1]

\* One axis of wiggle: [raised, w], w the coordinate assigned (None: none).
WiggleAxis(delta, steps, c0, frame_start, frame, hasTarget) ==
    IF IsNone(steps) \/ delta = 0 THEN [raised |-> "none", w |-> None]
    ELSE IF Val(steps) = 0 \/ Len(WigglePositions(Val(steps))) = 0
    THEN [raised |-> "ZeroDivisionError", w |-> None]
    ELSE IF IsNone(c0) THEN [raised |-> "TypeError", w |-> None]
    ELSE IF ~hasTarget THEN [raised |-> "AttributeError", w |-> None]
    ELSE [raised |-> "none",
          w |-> Some(Val(c0) + Round(delta * WiggleIndex(WigglePositions(Val(steps)),
                                                         frame_start, frame),
                                     Val(steps)))]

\* wiggle offsetting the group's current position instead of (x0, y0).
WiggleFromCurrent(kw, target, color, x0, y0, frame_start, frame) ==
    LET cx == IF IsNone(target) THEN None ELSE Some(Val(target).x)
        cy == IF IsNone(target) THEN None ELSE Some(Val(target).y)
        ax == WiggleAxis(kw.delta_x, kw.xsteps, cx, frame_start, frame, ~IsNone(target))
        ay == WiggleAxis(kw.delta_y, kw.ysteps, cy, frame_start, frame, ~IsNone(target))
        t1 == IF IsNone(ax.w) THEN target
              ELSE Some([x |-> Val(ax.w), y |-> Val(target).y])
        t2 == IF IsNone(ay.w) THEN t1
              ELSE Some([x |-> Val(t1).x, y |-> Val(ay.w)])
    IN  IF ax.raised # "none" THEN Outcome(ax.raised, target, color, None, None)
        ELSE IF ay.raised # "none" THEN Outcome(ay.raised, t1, color, ax.w, None)
        ELSE Outcome("none", t2, color, ax.w, ay.w)

\* wiggle(delta_x, delta_y, xsteps, ysteps, group, x0, y0, frame_start, frame):
\* the x axis, then the y axis unless the x axis raised.
Wiggle(kw, target, color, x0, y0, frame_start, frame) ==
    LET ax == WiggleAxis(kw.delta_x, kw.xsteps, x0, frame_start, frame, ~IsNone(target))
        t1 == IF IsNone(ax.w) THEN target
              ELSE Some([x |-> Val(ax.w), y |-> Val(target).y])
        ay == WiggleAxis(kw.delta_y, kw.ysteps, y0, frame_start, frame, ~IsNone(target))
        t2 == IF IsNone(ay.w) THEN t1
              ELSE Some([x |-> Val(t1).x, y |-> Val(ay.w)])
    IN  IF ax.raised # "none" THEN Outcome(ax.raised, target, color, None, None)
        ELSE IF ay.raised # "none" THEN Outcome(ay.raised, t1, color, ax.w, None)
        ELSE Outcome("none", t2, color, ax.w, ay.w)

\* color_morph_label(color_start, color_end, label, position).
ColorMorphLabel(kw, target, color, position) ==
    LET morphed_color == ColorFade(kw.color_start, kw.color_end, position)
    IN  IF morphed_color.rep = "ValueError"
        THEN Outcome("ValueError", target, color, None, None)
        ELSE Outcome("none", target, morphed_color, None, None)

(* -------------------------------- state -------------------------------- *)
VARIABLES
    entries,     \* the Animation list: the Entry objects in registration order
    group,       \* the displayio Groups: group[g] = [x |-> .., y |-> ..]
    label,       \* the labels' colours: label[l]
    calls,       \* the behaviour invocations of the last execute_frame call
    raised,      \* the exception that call propagated, "none" when it returned
    lastOp,      \* "init", "add" or "exec": the last operation called
    lastFrame,   \* the frame of the last execute_frame call (None: none yet)
    repeat,      \* the last two operations were execute_frame at the same frame
    reachedEnd,  \* reachedEnd[i]: entry i has been invoked at its frame_end
    sweep,       \* the example main loop's place: direction, step and pass
    memo         \* memo[t]: the groups after the first forward pass ran frame t

vars == <<entries, group, label, calls, raised, lastOp, lastFrame, repeat, reachedEnd,
          sweep, memo>>

Groups == {1}

Labels == {1}

\* The frames (in ticks) a caller may pass to execute_frame.
Ticks == 0..(MaxFrame * SubFrames)

\* The whole frames, in ticks, entries are registered with.
FrameChoices == {k * SubFrames : k \in 0..MaxFrame}

Functions == {"translate", "translate_relative", "wiggle", "color_morph_label"}

\* The keyword arguments of an entry.  A built-in reads only its own; the
\* ones an add_entry call does not pass hold the defaults of wiggle
\* (delta 0, steps None) or are never read.
NoKwargs ==
    [x1 |-> 0, y1 |-> 0, x2 |-> 0, y2 |-> 0, delta_x |-> 0, delta_y |-> 0,
     xsteps |-> None, ysteps |-> None,
     color_start |-> IntColor(0), color_end |-> IntColor(0), label |-> 1]

TranslateKwargs(x1, y1, x2, y2) ==
    [NoKwargs EXCEPT !.x1 = x1, !.y1 = y1, !.x2 = x2, !.y2 = y2]

RelativeKwargs(delta_x, delta_y) ==
    [NoKwargs EXCEPT !.delta_x = delta_x, !.delta_y = delta_y]

WiggleKwargs(delta_x, delta_y, xsteps, ysteps) ==
    [NoKwargs EXCEPT !.delta_x = delta_x, !.delta_y = delta_y,
                     !.xsteps = xsteps, !.ysteps = ysteps]

ColorKwargs(color_start, color_end, l) ==
    [NoKwargs EXCEPT !.color_start = color_start, !.color_end = color_end, !.label = l]

\* The keyword arguments add_entry is called with, per function.
KwargsChoices(function) ==
    CASE function = "translate" ->
             {TranslateKwargs(1, 0, 4, 2), TranslateKwargs(2, 3, -1, 3)}
      [] function = "translate_relative" ->
             {RelativeKwargs(2, -1)}
      [] function = "wiggle" ->
             {WiggleKwargs(3, 2, Some(3), Some(2)),
              WiggleKwargs(1, 0, Some(1), None)}
      [] function = "color_morph_label" ->
             {ColorKwargs(TupleColor(255, 0, 0), TupleColor(0, 0, 255), 1),
              ColorKwargs(IntColor(16711680), IntColor(255), 1)}

\* The group add_entry is called with: a Group for the motions, None for a
\* colour morph (its target is the label keyword).
GroupChoices(function) ==
    IF function = "color_morph_label" THEN {None} ELSE {Some(g) : g \in Groups}

(* ------------------------------- Entry --------------------------------- *)
\* Entry.__init__: the fields as given, the cached start unset.
Entry(g, frame_start, frame_end, function, kwargs) ==
    [group |-> g, frame_start |-> frame_start, frame_end |-> frame_end,
     function |-> function, kwargs |-> kwargs, startx |-> None, starty |-> None]

(* --------------------------- execute_frame ----------------------------- *)
\* The snapshot taken only while the cached start is still unset.
ShouldSnapshotOnce(entry, frame) ==
    frame = entry.frame_start /\ ~IsNone(entry.group) /\ IsNone(entry.startx)

\* The snapshot taken at every frame from frame_start on.
ShouldSnapshotFromStart(entry, frame) ==
    frame >= entry.frame_start /\ ~IsNone(entry.group)

\* (frame == entry.frame_start) and (entry.group is not None)
ShouldSnapshot(entry, frame) ==
    frame = entry.frame_start /\ ~IsNone(entry.group)

\* The window exclusive at its end.
InWindowExclusive(entry, frame) ==
    entry.frame_start <= frame /\ frame < entry.frame_end

\* The window between the two frames, whichever is the larger.
InWindowEitherOrder(entry, frame) ==
    \/ entry.frame_start <= frame /\ frame <= entry.frame_end
    \/ entry.frame_end <= frame /\ frame <= entry.frame_start

\* entry.frame_start <= frame <= entry.frame_end
InWindow(entry, frame) ==
    entry.frame_start <= frame /\ frame <= entry.frame_end

\* The position with a window of no length collapsing to 0 instead of 1.
PositionCollapsingToZero(entry, frame) ==
    IF entry.frame_end - entry.frame_start <= 0 THEN <<0, 1>>
    ELSE <<frame - entry.frame_start, entry.frame_end - entry.frame_start>>

\* The position passed to the behaviour, as the fraction <<n, d>>.
Position(entry, frame) ==
    IF entry.frame_end - entry.frame_start <= 0 THEN <<1, 1>>
    ELSE <<frame - entry.frame_start, entry.frame_end - entry.frame_start>>

\* entry.function(position=..., group=..., x0=..., y0=..., frame=...,
\* frame_start=..., frame_end=..., **entry.kwargs)
CallFunction(entry, position, frame, target, color) ==
    CASE entry.function = "translate" ->
             Translate(entry.kwargs, target, color, position)
      [] entry.function = "translate_relative" ->
             TranslateRelative(entry.kwargs, target, color,
                               entry.startx, entry.starty, position)
      [] entry.function = "wiggle" ->
             Wiggle(entry.kwargs, target, color, entry.startx, entry.starty,
                    entry.frame_start, frame)
      [] entry.function = "color_morph_label" ->
             ColorMorphLabel(entry.kwargs, target, color, position)

\* The record of one invocation.
Call(i, entry, position, frame, out) ==
    [entry |-> i, position |-> position, x0 |-> entry.startx, y0 |-> entry.starty,
     frame |-> frame, wx |-> out.wx, wy |-> out.wy, raised |-> out.raised]

\* The loop body snapshotting the position the group had when execute_frame
\* was called, instead of the one the entries before i left.
ExecuteEntrySnapshotAtCallStart(i, frame, st) ==
    LET e0     == st.entries[i]
        e      == IF ShouldSnapshot(e0, frame)
                  THEN [e0 EXCEPT !.startx = Some(group[Val(e0.group)].x),
                                  !.starty = Some(group[Val(e0.group)].y)]
                  ELSE e0
        st1    == [st EXCEPT !.entries[i] = e]
        target == IF IsNone(e.group) THEN None ELSE Some(st.group[Val(e.group)])
        l      == e.kwargs.label
        out    == CallFunction(e, Position(e, frame), frame, target, st.label[l])
    IN  IF ~InWindow(e, frame) THEN st1
        ELSE [st1 EXCEPT
                !.group  = IF IsNone(e.group) THEN @
                           ELSE [@ EXCEPT ![Val(e.group)] = Val(out.target)],
                !.label  = [@ EXCEPT ![l] = out.color],
                !.calls  = Append(@, Call(i, e, Position(e, frame), frame, out)),
                !.raised = out.raised]

\* The loop body for entry i on the running state st.
ExecuteEntry(i, frame, st) ==
    LET e0     == st.entries[i]
        e      == IF ShouldSnapshot(e0, frame)
                  THEN [e0 EXCEPT !.startx = Some(st.group[Val(e0.group)].x),
                                  !.starty = Some(st.group[Val(e0.group)].y)]
                  ELSE e0
        st1    == [st EXCEPT !.entries[i] = e]
        target == IF IsNone(e.group) THEN None ELSE Some(st.group[Val(e.group)])
        l      == e.kwargs.label
        out    == CallFunction(e, Position(e, frame), frame, target, st.label[l])
    IN  IF ~InWindow(e, frame) THEN st1
        ELSE [st1 EXCEPT
                !.group  = IF IsNone(e.group) THEN @
                           ELSE [@ EXCEPT ![Val(e.group)] = Val(out.target)],
                !.label  = [@ EXCEPT ![l] = out.color],
                !.calls  = Append(@, Call(i, e, Position(e, frame), frame, out)),
                !.raised = out.raised]

RECURSIVE RunEntriesReversed(_, _, _)
\* The loop running the entries last-registered first.
RunEntriesReversed(i, frame, st) ==
    IF i > Len(st.entries) \/ st.raised # "none" THEN st
    ELSE RunEntriesReversed(i + 1, frame,
                            ExecuteEntry(Len(st.entries) - i + 1, frame, st))

RECURSIVE RunEntries(_, _, _)
\* for entry in self: the entries from i on, stopping at an exception.
RunEntries(i, frame, st) ==
    IF i > Len(st.entries) \/ st.raised # "none" THEN st
    ELSE RunEntries(i + 1, frame, ExecuteEntry(i, frame, st))

\* The state execute_frame(frame) leaves, run from the current state.
Executed(frame) ==
    RunEntries(1, frame, [entries |-> entries, group |-> group, label |-> label,
                          calls |-> <<>>, raised |-> "none"])

InBounds(grp) ==
    \A g \in Groups : Abs(grp[g].x) <= MaxCoord /\ Abs(grp[g].y) <= MaxCoord

\* The entries the calls of a run invoked at their frame_end.
EndReached(st, frame) ==
    [i \in 1..Len(st.entries) |->
        \/ reachedEnd[i]
        \/ /\ \E c \in 1..Len(st.calls) : st.calls[c].entry = i
           /\ frame = st.entries[i].frame_end]

Commit(frame, st) ==
    /\ InBounds(st.group)
    /\ entries' = st.entries
    /\ group' = st.group
    /\ label' = st.label
    /\ calls' = st.calls
    /\ raised' = st.raised
    /\ lastOp' = "exec"
    /\ lastFrame' = Some(frame)
    /\ repeat' = (lastOp = "exec" /\ lastFrame = Some(frame))
    /\ reachedEnd' = EndReached(st, frame)

(* ------------------------------- actions ------------------------------- *)
\* The state of a fresh Animation and fresh labels, nothing called yet.
Fresh ==
    /\ label = [l \in Labels |-> IntColor(16777215)]
    /\ calls = <<>>
    /\ raised = "none"
    /\ lastOp = "init"
    /\ lastFrame = None
    /\ repeat = FALSE
    /\ memo = [t \in Ticks |-> None]

Init ==
    /\ Fresh
    /\ group = [g \in Groups |-> [x |-> 0, y |-> 0]]
    /\ entries = <<>>
    /\ reachedEnd = <<>>
    /\ sweep = [dir |-> "none", n |-> 0, pass |-> 0]

\* Animation.add_entry(group, frame_start, frame_end, function, **kwargs)
AddEntry(g, frame_start, frame_end, function, kwargs) ==
    /\ Len(entries) < MaxEntries
    /\ entries' = Append(entries, Entry(g, frame_start, frame_end, function, kwargs))
    /\ reachedEnd' = Append(reachedEnd, FALSE)
    /\ calls' = <<>>
    /\ raised' = "none"
    /\ lastOp' = "add"
    /\ lastFrame' = None
    /\ repeat' = FALSE
    /\ UNCHANGED <<group, label, sweep, memo>>

\* Animation.execute_frame(frame), returning normally.
ExecuteFrame(frame) ==
    LET st == Executed(frame)
    IN  /\ st.raised = "none"
        /\ Commit(frame, st)
        /\ UNCHANGED <<sweep, memo>>

\* Animation.execute_frame(frame), a behaviour's exception propagating.
ExecuteFrameRaises(frame) ==
    LET st == Executed(frame)
    IN  /\ st.raised # "none"
        /\ Commit(frame, st)
        /\ UNCHANGED <<sweep, memo>>

Next ==
    \/ \E function \in Functions :
         \E g \in GroupChoices(function), kwargs \in KwargsChoices(function),
            frame_start \in FrameChoices, frame_end \in FrameChoices :
              AddEntry(g, frame_start, frame_end, function, kwargs)
    \/ \E frame \in Ticks : ExecuteFrame(frame)
    \/ \E frame \in Ticks : ExecuteFrameRaises(frame)

Spec == Init /\ [][Next]_vars

(* ------------------------ the example's main loop ----------------------- *)
\* max_frames * frame_multiplier: the execute_frame calls of one pass.
PassLength == MaxFrame * SubFrames

\* The motions the example registers.
Motions == {"translate", "translate_relative", "wiggle"}

\* The entries add_entry may have appended for a function.
EntriesOf(function) ==
    {Entry(g, frame_start, frame_end, function, kwargs) :
        g \in GroupChoices(function), kwargs \in KwargsChoices(function),
        frame_start \in FrameChoices, frame_end \in FrameChoices}

\* The registries of the main loop: 1 .. MaxEntries motion entries.
Registries ==
    UNION {[1..n -> UNION {EntriesOf(function) : function \in Motions}] :
              n \in 1..MaxEntries}

\* Where the example puts a group before the loop (group1.x = .., group1.y = ..),
\* or leaves it (a new Group is at 0, 0).
StartChoices == {[x |-> 0, y |-> 0], [x |-> 1, y |-> 0]}

\* The state when the main loop starts: the entries added, nothing run.
InitSweep ==
    /\ Fresh
    /\ group \in [Groups -> StartChoices]
    /\ entries \in Registries
    /\ reachedEnd = [i \in 1..Len(entries) |-> FALSE]
    /\ sweep = [dir |-> "forward", n |-> 0, pass |-> 1]

\* The frame of step n of a pass: frame + subframe / frame_multiplier running
\* forward, max_frames - (frame + subframe / frame_multiplier) in reverse.
SweepFrame(dir, n) == IF dir = "forward" THEN n ELSE PassLength - n

\* The loop's place after a step: the next step, the other direction after
\* the last step of a pass, the next pass (counted to 2) after a reverse one.
SweepAdvance(sw) ==
    IF sw.n + 1 < PassLength THEN [sw EXCEPT !.n = sw.n + 1]
    ELSE IF sw.dir = "forward" THEN [sw EXCEPT !.dir = "reverse", !.n = 0]
    ELSE [dir |-> "forward", n |-> 0, pass |-> 2]

\* One execute_frame call of the forward loop.
RunForward ==
    LET frame == SweepFrame("forward", sweep.n)
        st    == Executed(frame)
    IN  /\ sweep.dir = "forward"
        /\ st.raised = "none"
        /\ Commit(frame, st)
        /\ sweep' = SweepAdvance(sweep)
        /\ memo' = IF sweep.pass = 1 THEN [memo EXCEPT ![frame] = Some(st.group)]
                   ELSE memo

\* One execute_frame call of the reverse loop.
RunReverse ==
    LET frame == SweepFrame("reverse", sweep.n)
        st    == Executed(frame)
    IN  /\ sweep.dir = "reverse"
        /\ st.raised = "none"
        /\ Commit(frame, st)
        /\ sweep' = SweepAdvance(sweep)
        /\ UNCHANGED memo

\* An execute_frame call of the loop raising: the program ends.
RunRaises ==
    LET frame == SweepFrame(sweep.dir, sweep.n)
        st    == Executed(frame)
    IN  /\ sweep.dir \in {"forward", "reverse"}
        /\ st.raised # "none"
        /\ Commit(frame, st)
        /\ sweep' = [sweep EXCEPT !.dir = "crashed"]
        /\ UNCHANGED memo

NextSweep == RunForward \/ RunReverse \/ RunRaises

SweepSpec == InitSweep /\ [][NextSweep]_vars

(* --------------------------- a lone wiggle ------------------------------ *)
\* The frames (in ticks) execute_frame is called with over a wiggle's window.
WiggleTicks == 0..(WiggleFrames * SubFrames)

\* The keyword arguments a wiggle entry is registered with: each steps value
\* from 1 on, one axis or both.
WiggleChoices ==
    {WiggleKwargs(3, 0, Some(xsteps), None) : xsteps \in 1..MaxSteps}
    \cup {WiggleKwargs(3, 2, Some(3), Some(ysteps)) : ysteps \in 1..MaxSteps}

\* An Animation with one wiggle entry added, nothing run: the example's
\* add_entry(group3, frame_start, frame_end, wiggle, ...).
InitWiggle ==
    /\ Fresh
    /\ group \in [Groups -> StartChoices]
    /\ \E g \in Groups, frame_start \in FrameChoices, kwargs \in WiggleChoices :
         entries = <<Entry(Some(g), frame_start, WiggleFrames * SubFrames,
                           "wiggle", kwargs)>>
    /\ reachedEnd = <<FALSE>>
    /\ sweep = [dir |-> "none", n |-> 0, pass |-> 0]

NextWiggle ==
    \/ \E frame \in WiggleTicks : ExecuteFrame(frame)
    \/ \E frame \in WiggleTicks : ExecuteFrameRaises(frame)

WiggleSpec == InitWiggle /\ [][NextWiggle]_vars

(* ------------------------- a lone colour morph -------------------------- *)
\* The frames (in ticks) execute_frame is called with over a morph's window.
FadeTicks == 0..(FadeFrames * SubFrames)

\* The colours a morph is registered with: tuples and packed 24-bit
\* integers, and two values _color_to_tuple rejects.
ColorChoices ==
    {TupleColor(255, 0, 0), TupleColor(0, 0, 255), TupleColor(1, 2, 3),
     IntColor(16711680), IntColor(255), IntColor(66051),
     IntColor(16777216), StrColor}

\* An Animation with one color_morph_label entry added, nothing run.
InitFade ==
    /\ Fresh
    /\ group = [g \in Groups |-> [x |-> 0, y |-> 0]]
    /\ \E color_start \in ColorChoices, color_end \in ColorChoices, l \in Labels :
         entries = <<Entry(None, 0, FadeFrames * SubFrames, "color_morph_label",
                           ColorKwargs(color_start, color_end, l))>>
    /\ reachedEnd = <<FALSE>>
    /\ sweep = [dir |-> "none", n |-> 0, pass |-> 0]

NextFade ==
    \/ \E frame \in FadeTicks : ExecuteFrame(frame)
    \/ \E frame \in FadeTicks : ExecuteFrameRaises(frame)

FadeSpec == InitFade /\ [][NextFade]_vars

(* ------------------------------ properties ----------------------------- *)
\* The last operation was an execute_frame call; Frame is its frame.
Executing == lastOp = "exec"

Returned == lastOp = "exec" /\ raised = "none"

Frame == Val(lastFrame)

\* The invocations of entry i in the last execute_frame call.
CallsOf(i) == {c \in 1..Len(calls) : calls[c].entry = i}

Max(S) == CHOOSE m \in S : \A n \in S : n <= m

Contains(i, frame) ==
    entries[i].frame_start <= frame /\ frame <= entries[i].frame_end

C2_EndExclusive ==
    Executing =>
        \A c \in 1..Len(calls) :
            entries[calls[c].entry].frame_start < entries[calls[c].entry].frame_end
                => calls[c].frame # entries[calls[c].entry].frame_end

C4_NegativeWindowInvoked ==
    Returned =>
        \A i \in 1..Len(entries) :
            (entries[i].frame_end < entries[i].frame_start /\ Frame = entries[i].frame_start)
                => \E c \in CallsOf(i) : calls[c].position[1] = calls[c].position[2]

(* C4 as amended: an entry registered with frame_end < frame_start is no    *)
(* error, and its window is empty: no execute_frame call invokes its        *)
(* behaviour; the position collapses to 1 only for frame_end ==             *)
(* frame_start.                                                             *)
C4_NegativeWindowNeverInvoked ==
    Executing =>
        /\ \A i \in 1..Len(entries) :
               entries[i].frame_end < entries[i].frame_start => CallsOf(i) = {}
        /\ \A c \in 1..Len(calls) :
               entries[calls[c].entry].frame_end = entries[calls[c].entry].frame_start
                   => calls[c].position[1] = calls[c].position[2]

\* execute_frame(frame_start) returned for an entry with frame_end <
\* frame_start: its start was snapshotted, its behaviour not invoked.
C4_Witness ==
    /\ Returned
    /\ \E i \in 1..Len(entries) :
         /\ entries[i].frame_end < entries[i].frame_start
         /\ Frame = entries[i].frame_start
         /\ ~IsNone(entries[i].startx)
         /\ CallsOf(i) = {}

\* The invocations of the last call on group g that assigned x (y).
WroteX(g) ==
    {c \in 1..Len(calls) :
        entries[calls[c].entry].group = Some(g) /\ ~IsNone(calls[c].wx)}

WroteY(g) ==
    {c \in 1..Len(calls) :
        entries[calls[c].entry].group = Some(g) /\ ~IsNone(calls[c].wy)}

\* Of a set of invocations, the one of the entry registered last.
LastRegistered(cs) == CHOOSE c \in cs : \A b \in cs : calls[b].entry <= calls[c].entry

(* C5: within one execute_frame call the entries run in registration       *)
(* order: when several entries on one target have the frame in their       *)
(* windows, the target's x and y after the call are the values the         *)
(* last-registered of them assigned.                                       *)
C5_RegistrationOrder ==
    Returned =>
        \A g \in Groups :
            /\ WroteX(g) # {} => group[g].x = Val(calls[LastRegistered(WroteX(g))].wx)
            /\ WroteY(g) # {} => group[g].y = Val(calls[LastRegistered(WroteY(g))].wy)

\* Two entries on one target ran in one call and assigned different x.
C5_Witness ==
    /\ Returned
    /\ \E g \in Groups :
         \E a \in WroteX(g), b \in WroteX(g) :
             /\ calls[a].entry < calls[b].entry
             /\ calls[a].wx # calls[b].wx
             /\ group[g].x = Val(calls[b].wx)

\* In a step, the last entry the execute_frame call got to: all of them
\* when it returned, the one that raised otherwise.
LastRun ==
    IF raised' = "none" THEN Len(entries) ELSE calls'[Len(calls')].entry

\* In a step, the target of entry i as the call found it at the entry's
\* turn: as the invocations of the entries before it left it.
XBefore(i) ==
    LET g  == Val(entries[i].group)
        cs == {c \in 1..Len(calls') :
                  /\ calls'[c].entry < i
                  /\ entries[calls'[c].entry].group = Some(g)
                  /\ ~IsNone(calls'[c].wx)}
    IN  IF cs = {} THEN group[g].x ELSE Val(calls'[Max(cs)].wx)

YBefore(i) ==
    LET g  == Val(entries[i].group)
        cs == {c \in 1..Len(calls') :
                  /\ calls'[c].entry < i
                  /\ entries[calls'[c].entry].group = Some(g)
                  /\ ~IsNone(calls'[c].wy)}
    IN  IF cs = {} THEN group[g].y ELSE Val(calls'[Max(cs)].wy)

(* C6: add_entry appends an entry with the cached start unset and leaves   *)
(* the other entries alone; execute_frame(frame) sets the cached start of  *)
(* an entry it gets to to the target's current x, y if frame ==            *)
(* frame_start and the target is not None, and leaves the cached start of  *)
(* every other entry as it was (so it stays unset until the first call     *)
(* with frame == frame_start).                                             *)
C6_Snapshot ==
    [][ /\ lastOp' = "add" =>
            /\ Len(entries') = Len(entries) + 1
            /\ IsNone(entries'[Len(entries')].startx)
            /\ IsNone(entries'[Len(entries')].starty)
            /\ \A i \in 1..Len(entries) : entries'[i] = entries[i]
        /\ lastOp' = "exec" =>
            /\ Len(entries') = Len(entries)
            /\ \A i \in 1..Len(entries) :
                 IF /\ i <= LastRun
                    /\ Val(lastFrame') = entries[i].frame_start
                    /\ ~IsNone(entries[i].group)
                 THEN /\ entries'[i].startx = Some(XBefore(i))
                      /\ entries'[i].starty = Some(YBefore(i))
                 ELSE /\ entries'[i].startx = entries[i].startx
                      /\ entries'[i].starty = entries[i].starty
      ]_vars

\* A call snapshotted one entry (its frame_start is the frame) and left
\* unset the cached start of another entry on a group and of an entry
\* whose group is None though its frame_start is the frame.
C6_Witness ==
    /\ Returned
    /\ \E i \in 1..Len(entries) :
         /\ entries[i].frame_start = Frame
         /\ ~IsNone(entries[i].startx)
    /\ \E j \in 1..Len(entries) :
         /\ IsNone(entries[j].startx)
         /\ \/ entries[j].frame_start # Frame /\ ~IsNone(entries[j].group)
            \/ entries[j].frame_start = Frame /\ IsNone(entries[j].group)

(* C7: once the cached start of an entry is set, an execute_frame call at  *)
(* a frame other than frame_start, whatever the order of the frames,       *)
(* leaves it as it is and passes it to the behaviour as x0, y0; no call    *)
(* resets it to unset.                                                     *)
C7_CachedStartReused ==
    [][ lastOp' = "exec" =>
            \A i \in 1..Len(entries) :
                ~IsNone(entries[i].startx) =>
                    /\ ~IsNone(entries'[i].startx) /\ ~IsNone(entries'[i].starty)
                    /\ Val(lastFrame') # entries[i].frame_start =>
                         /\ entries'[i].startx = entries[i].startx
                         /\ entries'[i].starty = entries[i].starty
                         /\ \A c \in 1..Len(calls') :
                              calls'[c].entry = i =>
                                  /\ calls'[c].x0 = entries[i].startx
                                  /\ calls'[c].y0 = entries[i].starty
      ]_vars

\* A relative motion that was run to its frame_end is invoked at an earlier
\* frame of its window, after the target has moved, with the start cached
\* at frame_start.
C7_Witness ==
    /\ Returned
    /\ \E c \in 1..Len(calls) :
         LET e == entries[calls[c].entry]
         IN  /\ e.function \in {"translate_relative", "wiggle"}
             /\ reachedEnd[calls[c].entry]
             /\ e.frame_start < Frame /\ Frame < e.frame_end
             /\ ~IsNone(calls[c].x0)
             /\ calls[c].x0 = e.startx
             /\ group[Val(e.group)].x # Val(e.startx)

\* The entries on group g whose window holds the frame.
ActiveOn(g, frame) ==
    {i \in 1..Len(entries) : entries[i].group = Some(g) /\ Contains(i, frame)}

\* What translate leaves of a group at a frame, from the entry's arguments
\* alone.
TranslateAt(e, frame) ==
    LET n == IF e.frame_end > e.frame_start THEN frame - e.frame_start ELSE 1
        d == IF e.frame_end > e.frame_start THEN e.frame_end - e.frame_start ELSE 1
    IN  [x |-> Round((e.kwargs.x2 - e.kwargs.x1) * n, d) + e.kwargs.x1,
         y |-> Round((e.kwargs.y2 - e.kwargs.y1) * n, d) + e.kwargs.y1]

(* C8 as claimed: playback is a function of the frame alone: with a fixed   *)
(* registry of translate, translate_relative and wiggle entries, run by     *)
(* the forward-then-reverse loop, every execute_frame(F) leaves each group  *)
(* where the first forward pass left it at F, in either direction and in    *)
(* every repetition of the sweep.                                           *)
C8_FramePure ==
    (Returned /\ sweep.dir # "none") =>
        (~IsNone(memo[Frame]) => group = Val(memo[Frame]))

(* C8 as amended: playback of translate is a function of the frame alone:   *)
(* when the last-registered entry on a group whose window holds F is a      *)
(* translate, execute_frame(F) leaves the group at the point its arguments  *)
(* fix for F, the same in either direction and in every repetition of the   *)
(* sweep.  (Not so under translate_relative and wiggle, whose start is      *)
(* snapshotted again from the group's current position at each              *)
(* execute_frame(frame_start), nor at a frame outside every window.)        *)
C8_TranslateFramePure ==
    Returned =>
        \A g \in Groups :
            (/\ ActiveOn(g, Frame) # {}
             /\ entries[Max(ActiveOn(g, Frame))].function = "translate")
                => /\ group[g] = TranslateAt(entries[Max(ActiveOn(g, Frame))], Frame)
                   /\ ~IsNone(memo[Frame]) => group[g] = Val(memo[Frame])[g]

\* In the second sweep a translate registered after a translate_relative
\* on the same group leaves the group where the first forward pass did.
C8_Witness ==
    /\ Returned
    /\ sweep.pass = 2
    /\ ~IsNone(memo[Frame])
    /\ \E g \in Groups :
         /\ ActiveOn(g, Frame) # {}
         /\ entries[Max(ActiveOn(g, Frame))].function = "translate"
         /\ \E i \in ActiveOn(g, Frame) : entries[i].function = "translate_relative"
         /\ group[g] = Val(memo[Frame])[g]

\* No entry of the registry is a translate_relative.
NoRelative == \A i \in 1..Len(entries) : entries[i].function # "translate_relative"

(* C9: with translate, wiggle and colour-morph entries, execute_frame(f)    *)
(* called again right after execute_frame(f) leaves every group's x, y and  *)
(* every label's colour as the first call left them, for every f,           *)
(* frame_start and windows of no length included.                           *)
C9_Idempotent ==
    [][ (lastOp = "exec" /\ lastOp' = "exec" /\ lastFrame' = lastFrame /\ NoRelative)
            => (group' = group /\ label' = label) ]_vars

\* execute_frame was called twice at the frame_start of a wiggle whose
\* behaviour ran, beside an entry of no length and a colour morph.
C9_Witness ==
    /\ repeat
    /\ Returned
    /\ NoRelative
    /\ \E c \in 1..Len(calls) :
         /\ entries[calls[c].entry].function = "wiggle"
         /\ entries[calls[c].entry].frame_start = Frame
    /\ \E c \in 1..Len(calls) :
         /\ entries[calls[c].entry].function \in {"translate", "color_morph_label"}
         /\ entries[calls[c].entry].frame_start = entries[calls[c].entry].frame_end

XTable(e) == WigglePositions(Val(e.kwargs.xsteps))

YTable(e) == WigglePositions(Val(e.kwargs.ysteps))

\* (frame - frame_start) mod period == 0, the period a table's length in
\* whole frames.
AtPeriod(e, table, frame) ==
    (frame - e.frame_start) % (SubFrames * Len(table)) = 0

(* C11: wiggle returns the target to its cached start: for an axis with     *)
(* steps set and a non-zero delta, an invocation that returns at a frame    *)
(* with (frame - frame_start) mod period == 0, period the length of the     *)
(* axis' offset table, assigns x0 to the target's x (y0 to its y), at       *)
(* frame_start and at every later such frame of the window; the target is   *)
(* there after execute_frame(frame) when no later entry moved it.           *)
C11_WiggleReturnsToStart ==
    Returned =>
        \A c \in 1..Len(calls) :
            LET e  == entries[calls[c].entry]
                kw == e.kwargs
                g  == Val(e.group)
            IN  e.function = "wiggle" =>
                  /\ (/\ ~IsNone(kw.xsteps) /\ kw.delta_x # 0
                      /\ AtPeriod(e, XTable(e), Frame))
                        => /\ calls[c].wx = calls[c].x0
                           /\ c = Max(WroteX(g)) => group[g].x = Val(calls[c].x0)
                  /\ (/\ ~IsNone(kw.ysteps) /\ kw.delta_y # 0
                      /\ AtPeriod(e, YTable(e), Frame))
                        => /\ calls[c].wy = calls[c].y0
                           /\ c = Max(WroteY(g)) => group[g].y = Val(calls[c].y0)

\* A wiggle with a table of several offsets is a whole period past its
\* frame_start and back at x0, after a call that had moved it off x0.
C11_Witness ==
    /\ Returned
    /\ \E c \in 1..Len(calls) :
         LET e == entries[calls[c].entry]
         IN  /\ e.function = "wiggle"
             /\ ~IsNone(e.kwargs.xsteps) /\ e.kwargs.delta_x # 0
             /\ Len(XTable(e)) >= 2
             /\ Frame > e.frame_start
             /\ AtPeriod(e, XTable(e), Frame)
             /\ group[Val(e.group)].x = Val(e.startx)
             /\ ~IsNone(e.kwargs.ysteps) /\ e.kwargs.delta_y # 0
             /\ group[Val(e.group)].y # Val(e.starty)

(* C12: for every steps >= 1 the offset table wiggle builds for an axis has *)
(* exactly steps offsets, so that a full wiggle takes steps frame steps,    *)
(* and indexing it by (frame - frame_start) mod its length never fails.     *)
C12_TableLengthIsSteps ==
    Executing =>
        \A c \in 1..Len(calls) :
            LET e  == entries[calls[c].entry]
                kw == e.kwargs
            IN  e.function = "wiggle" =>
                  /\ (~IsNone(kw.xsteps) /\ kw.delta_x # 0 /\ Val(kw.xsteps) >= 1)
                        => /\ Len(XTable(e)) = Val(kw.xsteps)
                           /\ calls[c].raised # "ZeroDivisionError"
                  /\ (~IsNone(kw.ysteps) /\ kw.delta_y # 0 /\ Val(kw.ysteps) >= 1)
                        => /\ Len(YTable(e)) = Val(kw.ysteps)
                           /\ calls[c].raised # "ZeroDivisionError"

\* The invocations of the last call that morphed label l; the last of them
\* left the label's colour.
Morphed(l) ==
    {c \in 1..Len(calls) :
        /\ entries[calls[c].entry].function = "color_morph_label"
        /\ entries[calls[c].entry].kwargs.label = l}

(* C13: colour blend boundary: for two valid colours, tuples or packed      *)
(* 24-bit integers, the blend at fraction 0 is the start colour and the     *)
(* blend at fraction 1 is the end colour: a colour morph invoked at         *)
(* position 0 leaves the label's colour equal to color_start, at position 1 *)
(* equal to color_end.                                                      *)
C13_BlendBoundary ==
    Returned =>
        \A l \in Labels :
            Morphed(l) # {} =>
                LET c  == Max(Morphed(l))
                    kw == entries[calls[c].entry].kwargs
                IN  /\ calls[c].position[1] = 0 => label[l] = kw.color_start
                    /\ calls[c].position[1] = calls[c].position[2]
                           => label[l] = kw.color_end

(* C14: colour blend fixed point: blending a valid colour c, tuple or       *)
(* packed 24-bit integer, with itself gives c at every fraction in [0, 1],  *)
(* the interior fractions and the endpoints: a colour morph with            *)
(* color_start == color_end == c leaves the label's colour equal to c.      *)
C14_BlendFixedPoint ==
    Returned =>
        \A l \in Labels :
            Morphed(l) # {} =>
                LET kw == entries[calls[Max(Morphed(l))].entry].kwargs
                IN  kw.color_start = kw.color_end => label[l] = kw.color_start

\* The invocations of the last call, on the group of entry i, of entries
\* registered before i, that assigned x (y).
EarlierWroteX(i) == {c \in WroteX(Val(entries[i].group)) : calls[c].entry < i}

EarlierWroteY(i) == {c \in WroteY(Val(entries[i].group)) : calls[c].entry < i}

====
